---- MODULE Spec2Model ----
(***************************************************************************)
(* Greenberg word-order universals evaluated against Lang2Vec features.    *)
(*                                                                         *)
(* Part 1: the six row evaluators of rules_greenberg.py, as operators on a *)
(* row (a function from the columns the row has to a cell value).          *)
(* Part 2: the pipeline of greenberg_pipeline.py (normalize, column check, *)
(* apply_rule, prepare_wals_coords, attach_geo, macro_area_summary,        *)
(* coverage_report), one action per call of run_rule_from_lang2vec.        *)
(*                                                                         *)
(* Cell values are strings: "1" attested, "0" not attested, "NaN" the      *)
(* unobserved marker (np.nan).  A column a row does not have is a column   *)
(* outside the row's DOMAIN.  "None" is what row.get(c) returns for such a *)
(* column when no default is given.  A verdict is "1" (follows), "0"       *)
(* (violates) or "NaN" (not testable), as the evaluators return them.      *)
(***************************************************************************)
EXTENDS Integers, Sequences, FiniteSets, TLC

\* ------------------------------------------------------------ bounds ----
\* Largest number of rows of the geographic reference file.
MaxGeoRows == 2
\* Largest number of required columns the input table may lack.
MaxMissing == 2
\* Largest number of rows of a table that carries its language codes in a
\* lang_code column.
MaxCodeRows == 2

\* ------------------------------------------------- required features ----
RULE19_FEATURES_NEEDED ==
  << "S_ADJECTIVE_AFTER_NOUN",
     "S_DEMONSTRATIVE_WORD_BEFORE_NOUN",
     "S_DEMONSTRATIVE_WORD_AFTER_NOUN",
     "S_NUMERAL_BEFORE_NOUN",
     "S_NUMERAL_AFTER_NOUN" >>

RULE20_FEATURES_NEEDED ==
  << "S_ADJECTIVE_BEFORE_NOUN",
     "S_DEMONSTRATIVE_WORD_BEFORE_NOUN",
     "S_NUMERAL_BEFORE_NOUN",
     "S_POSSESSOR_BEFORE_NOUN",
     "S_POSSESSOR_AFTER_NOUN" >>

RULE21_FEATURES_NEEDED ==
  << "S_ADJECTIVE_AFTER_NOUN",
     "S_DEMONSTRATIVE_WORD_AFTER_NOUN",
     "S_NUMERAL_AFTER_NOUN",
     "S_POSSESSOR_BEFORE_NOUN",
     "S_POSSESSOR_AFTER_NOUN" >>

RULE23_FEATURES_NEEDED ==
  << "S_SVO", "S_VSO", "S_VOS",
     "S_ADJECTIVE_BEFORE_NOUN",
     "S_ADJECTIVE_AFTER_NOUN" >>

RULE24_FEATURES_NEEDED ==
  << "S_SOV", "S_OSV", "S_OVS",
     "S_ADJECTIVE_BEFORE_NOUN",
     "S_ADJECTIVE_AFTER_NOUN" >>

RULE41_FEATURES_NEEDED ==
  << "S_SOV", "S_OSV",
     "S_CASE_MARK", "S_CASE_PREFIX", "S_CASE_SUFFIX",
     "S_CASE_PROCLITIC", "S_CASE_ENCLITIC" >>

\* ------------------------------------------------------ pandas helpers ----
\* row.get(c, d): the cell when the row has the column, else the default.
Get(row, c, d) == IF c \in DOMAIN row THEN row[c] ELSE d

\* row.get(c): no default, None for a column the row does not have.
GetNone(row, c) == Get(row, c, "None")

\* pd.isna(None) is True.
IsNaNoNone(v) == v = "NaN"

\* pd.isna(v): true of np.nan and of None.
IsNa(v) == v \in {"NaN", "None"}

\* v == 1 (np.nan == 1 and None == 1 are False).
Is1(v) == v = "1"

\* ---------------------------------------------------------- evaluators ----
\* Mutant of rule 19: the testability test of the numeral is left out.
evaluate_rule19_row_dem_only(row) ==
  IF Get(row, "S_ADJECTIVE_AFTER_NOUN", "0") # "1" THEN "NaN"
  ELSE
    LET dem_before == Is1(Get(row, "S_DEMONSTRATIVE_WORD_BEFORE_NOUN", "NaN"))
        dem_after  == Is1(Get(row, "S_DEMONSTRATIVE_WORD_AFTER_NOUN", "NaN"))
        num_before == Is1(Get(row, "S_NUMERAL_BEFORE_NOUN", "NaN"))
        num_after  == Is1(Get(row, "S_NUMERAL_AFTER_NOUN", "NaN"))
    IN  IF ~dem_before /\ ~dem_after
             /\ (IsNa(GetNone(row, "S_DEMONSTRATIVE_WORD_BEFORE_NOUN"))
                 \/ IsNa(GetNone(row, "S_DEMONSTRATIVE_WORD_AFTER_NOUN")))
        THEN "NaN"
        ELSE IF (dem_before /\ ~dem_after) \/ (num_before /\ ~num_after)
             THEN "0" ELSE "1"

evaluate_rule19_row(row) ==
  IF Get(row, "S_ADJECTIVE_AFTER_NOUN", "0") # "1" THEN "NaN"
  ELSE
    LET dem_before == Is1(Get(row, "S_DEMONSTRATIVE_WORD_BEFORE_NOUN", "NaN"))
        dem_after  == Is1(Get(row, "S_DEMONSTRATIVE_WORD_AFTER_NOUN", "NaN"))
        num_before == Is1(Get(row, "S_NUMERAL_BEFORE_NOUN", "NaN"))
        num_after  == Is1(Get(row, "S_NUMERAL_AFTER_NOUN", "NaN"))
    IN  IF \/ /\ ~dem_before /\ ~dem_after
              /\ (IsNa(GetNone(row, "S_DEMONSTRATIVE_WORD_BEFORE_NOUN"))
                  \/ IsNa(GetNone(row, "S_DEMONSTRATIVE_WORD_AFTER_NOUN")))
           \/ /\ ~num_before /\ ~num_after
              /\ (IsNa(GetNone(row, "S_NUMERAL_BEFORE_NOUN"))
                  \/ IsNa(GetNone(row, "S_NUMERAL_AFTER_NOUN")))
        THEN "NaN"
        ELSE
          LET violates_dem == dem_before /\ ~dem_after
              violates_num == num_before /\ ~num_after
              violates     == violates_dem \/ violates_num
          IN  IF violates THEN "0" ELSE "1"

evaluate_rule20_row(row) ==
  LET mod_before ==
        \/ Is1(Get(row, "S_ADJECTIVE_BEFORE_NOUN", "0"))
        \/ Is1(Get(row, "S_DEMONSTRATIVE_WORD_BEFORE_NOUN", "0"))
        \/ Is1(Get(row, "S_NUMERAL_BEFORE_NOUN", "0"))
  IN  IF ~mod_before THEN "NaN"
      ELSE
        LET gen_before == Is1(Get(row, "S_POSSESSOR_BEFORE_NOUN", "NaN"))
            gen_after  == Is1(Get(row, "S_POSSESSOR_AFTER_NOUN", "NaN"))
            before_val == Get(row, "S_POSSESSOR_BEFORE_NOUN", "NaN")
            after_val  == Get(row, "S_POSSESSOR_AFTER_NOUN", "NaN")
        IN  IF ~gen_before /\ ~gen_after /\ (IsNa(before_val) \/ IsNa(after_val))
            THEN "NaN"
            ELSE LET violates == gen_after /\ ~gen_before
                 IN  IF violates THEN "0" ELSE "1"

\* Mutant of rule 21: a possessor attested both before and after the noun
\* is flagged as a violation.
evaluate_rule21_row_mixed(row) ==
  LET mod_after ==
        \/ Is1(Get(row, "S_ADJECTIVE_AFTER_NOUN", "0"))
        \/ Is1(Get(row, "S_DEMONSTRATIVE_WORD_AFTER_NOUN", "0"))
        \/ Is1(Get(row, "S_NUMERAL_AFTER_NOUN", "0"))
  IN  IF ~mod_after THEN "NaN"
      ELSE
        LET gen_before == Is1(Get(row, "S_POSSESSOR_BEFORE_NOUN", "NaN"))
            gen_after  == Is1(Get(row, "S_POSSESSOR_AFTER_NOUN", "NaN"))
            before_val == Get(row, "S_POSSESSOR_BEFORE_NOUN", "NaN")
            after_val  == Get(row, "S_POSSESSOR_AFTER_NOUN", "NaN")
        IN  IF ~gen_before /\ ~gen_after /\ (IsNa(before_val) \/ IsNa(after_val))
            THEN "NaN"
            ELSE IF gen_before THEN "0" ELSE "1"

evaluate_rule21_row(row) ==
  LET mod_after ==
        \/ Is1(Get(row, "S_ADJECTIVE_AFTER_NOUN", "0"))
        \/ Is1(Get(row, "S_DEMONSTRATIVE_WORD_AFTER_NOUN", "0"))
        \/ Is1(Get(row, "S_NUMERAL_AFTER_NOUN", "0"))
  IN  IF ~mod_after THEN "NaN"
      ELSE
        LET gen_before == Is1(Get(row, "S_POSSESSOR_BEFORE_NOUN", "NaN"))
            gen_after  == Is1(Get(row, "S_POSSESSOR_AFTER_NOUN", "NaN"))
            before_val == Get(row, "S_POSSESSOR_BEFORE_NOUN", "NaN")
            after_val  == Get(row, "S_POSSESSOR_AFTER_NOUN", "NaN")
        IN  IF ~gen_before /\ ~gen_after /\ (IsNa(before_val) \/ IsNa(after_val))
            THEN "NaN"
            ELSE LET violates == gen_before /\ ~gen_after
                 IN  IF violates THEN "0" ELSE "1"

\* Mutant of rule 23: the antecedent test is left out.
evaluate_rule23_row_no_antecedent(row) ==
  LET adj_before == Is1(Get(row, "S_ADJECTIVE_BEFORE_NOUN", "NaN"))
      adj_after  == Is1(Get(row, "S_ADJECTIVE_AFTER_NOUN", "NaN"))
      before_val == Get(row, "S_ADJECTIVE_BEFORE_NOUN", "NaN")
      after_val  == Get(row, "S_ADJECTIVE_AFTER_NOUN", "NaN")
  IN  IF ~adj_before /\ ~adj_after /\ (IsNa(before_val) \/ IsNa(after_val))
      THEN "NaN"
      ELSE IF adj_after /\ ~adj_before THEN "0" ELSE "1"

evaluate_rule23_row(row) ==
  LET vo ==
        \/ Is1(Get(row, "S_SVO", "0"))
        \/ Is1(Get(row, "S_VSO", "0"))
        \/ Is1(Get(row, "S_VOS", "0"))
  IN  IF ~vo THEN "NaN"
      ELSE
        LET adj_before == Is1(Get(row, "S_ADJECTIVE_BEFORE_NOUN", "NaN"))
            adj_after  == Is1(Get(row, "S_ADJECTIVE_AFTER_NOUN", "NaN"))
            before_val == Get(row, "S_ADJECTIVE_BEFORE_NOUN", "NaN")
            after_val  == Get(row, "S_ADJECTIVE_AFTER_NOUN", "NaN")
        IN  IF ~adj_before /\ ~adj_after /\ (IsNa(before_val) \/ IsNa(after_val))
            THEN "NaN"
            ELSE LET violates == adj_after /\ ~adj_before
                 IN  IF violates THEN "0" ELSE "1"

evaluate_rule24_row(row) ==
  LET is_ov ==
        \/ Is1(Get(row, "S_SOV", "0"))
        \/ Is1(Get(row, "S_OSV", "0"))
        \/ Is1(Get(row, "S_OVS", "0"))
  IN  IF ~is_ov THEN "NaN"
      ELSE
        LET adj_before == Is1(Get(row, "S_ADJECTIVE_BEFORE_NOUN", "NaN"))
            adj_after  == Is1(Get(row, "S_ADJECTIVE_AFTER_NOUN", "NaN"))
            before_val == Get(row, "S_ADJECTIVE_BEFORE_NOUN", "NaN")
            after_val  == Get(row, "S_ADJECTIVE_AFTER_NOUN", "NaN")
        IN  IF ~adj_before /\ ~adj_after /\ (IsNa(before_val) \/ IsNa(after_val))
            THEN "NaN"
            ELSE LET violates == adj_before /\ ~adj_after
                 IN  IF violates THEN "0" ELSE "1"

\* The case indicators rule 41 looks at (its local list case_features).
case_features ==
  << "S_CASE_MARK", "S_CASE_PREFIX", "S_CASE_SUFFIX",
     "S_CASE_PROCLITIC", "S_CASE_ENCLITIC" >>

\* Mutant of rule 41: one unobserved case indicator makes the row untestable.
evaluate_rule41_row_any_missing(row) ==
  LET verb_final == Is1(Get(row, "S_SOV", "0")) \/ Is1(Get(row, "S_OSV", "0"))
  IN  IF ~verb_final THEN "NaN"
      ELSE
        LET present_vals == [i \in DOMAIN case_features |->
                               Get(row, case_features[i], "NaN")]
        IN  IF \E i \in DOMAIN present_vals : IsNa(present_vals[i])
            THEN "NaN"
            ELSE IF \E i \in DOMAIN present_vals : Is1(present_vals[i])
                 THEN "1" ELSE "0"

evaluate_rule41_row(row) ==
  LET verb_final == Is1(Get(row, "S_SOV", "0")) \/ Is1(Get(row, "S_OSV", "0"))
  IN  IF ~verb_final THEN "NaN"
      ELSE
        LET present_vals == [i \in DOMAIN case_features |->
                               Get(row, case_features[i], "NaN")]
        IN  IF \A i \in DOMAIN present_vals : IsNa(present_vals[i])
            THEN "NaN"
            ELSE LET has_case == \E i \in DOMAIN present_vals : Is1(present_vals[i])
                 IN  IF has_case THEN "1" ELSE "0"

\* The rules of the corpus, and for each its evaluator and feature list
\* (the pairs a caller hands to run_rule_from_lang2vec).
RuleIds == {"19", "20", "21", "23", "24", "41"}

FeaturesNeeded(r) ==
  CASE r = "19" -> RULE19_FEATURES_NEEDED
    [] r = "20" -> RULE20_FEATURES_NEEDED
    [] r = "21" -> RULE21_FEATURES_NEEDED
    [] r = "23" -> RULE23_FEATURES_NEEDED
    [] r = "24" -> RULE24_FEATURES_NEEDED
    [] r = "41" -> RULE41_FEATURES_NEEDED

rule_fn(r, row) ==
  CASE r = "19" -> evaluate_rule19_row(row)
    [] r = "20" -> evaluate_rule20_row(row)
    [] r = "21" -> evaluate_rule21_row(row)
    [] r = "23" -> evaluate_rule23_row(row)
    [] r = "24" -> evaluate_rule24_row(row)
    [] r = "41" -> evaluate_rule41_row(row)

Range(s) == {s[i] : i \in DOMAIN s}

\* ------------------------------------------------------- input universe ----
\* Cell values of a feature table once "--" has been replaced by np.nan.
Cells == {"0", "1", "NaN"}

\* Language codes of the feature table (its index: the keys of the Lang2Vec
\* dict, hence distinct strings).
Codes == {"aaa", "bbb"}

\* Macro-areas of the reference file, in ascending order (groupby sorts its
\* keys).
Macros == << "Africa", "Eurasia" >>

\* A Lang2Vec syntax column no rule asks for.
OtherColumn == "S_TEND_PREFIX"

\* The columns of a rule that make up its antecedent: the flags the
\* evaluator reads with default 0.
AntecedentCols(r) ==
  CASE r = "19" -> {"S_ADJECTIVE_AFTER_NOUN"}
    [] r = "20" -> {"S_ADJECTIVE_BEFORE_NOUN", "S_DEMONSTRATIVE_WORD_BEFORE_NOUN",
                    "S_NUMERAL_BEFORE_NOUN"}
    [] r = "21" -> {"S_ADJECTIVE_AFTER_NOUN", "S_DEMONSTRATIVE_WORD_AFTER_NOUN",
                    "S_NUMERAL_AFTER_NOUN"}
    [] r = "23" -> {"S_SVO", "S_VSO", "S_VOS"}
    [] r = "24" -> {"S_SOV", "S_OSV", "S_OVS"}
    [] r = "41" -> {"S_SOV", "S_OSV"}

\* The consequent columns that say "before the noun" (for rule 41: the
\* general case-marking flag).
BeforeCols(r) ==
  CASE r = "19" -> {"S_DEMONSTRATIVE_WORD_BEFORE_NOUN", "S_NUMERAL_BEFORE_NOUN"}
    [] r \in {"20", "21"} -> {"S_POSSESSOR_BEFORE_NOUN"}
    [] r \in {"23", "24"} -> {"S_ADJECTIVE_BEFORE_NOUN"}
    [] r = "41" -> {"S_CASE_MARK"}

\* All rows over the columns of rule r a row may have; a row may lack any of
\* them (a literal mapping handed to the evaluator).
EvalRows(r) ==
  UNION { [S -> Cells] : S \in SUBSET Range(FeaturesNeeded(r)) }

\* The rows of the feature tables the pipeline is run on: complete rows in
\* which the antecedent flags share one observed value, the "before" columns
\* a second value and the remaining columns a third.
PipeFlags == {"0", "1"}

PipeCells == Cells

PipeRow(r, cols, a, b, c) ==
  [col \in cols |->
     IF col \in AntecedentCols(r) THEN a
     ELSE IF col \in BeforeCols(r) THEN b
     ELSE IF col = OtherColumn THEN "0"
     ELSE c]

PipeRows(r, cols) ==
  { PipeRow(r, cols, a, b, c) : a \in PipeFlags, b \in PipeCells, c \in PipeCells }

\* Sequences without repetition over a set, of every length.
RECURSIVE Perms(_)
Perms(S) ==
  IF S = {} THEN { << >> }
  ELSE UNION { { <<x>> \o p : p \in Perms(S \ {x}) } : x \in S }

DistinctSeqs(S) == UNION { Perms(T) : T \in SUBSET S }

\* The column lists of the input table: the rule's required features less
\* at most MaxMissing of them, followed by a column the rule does not need.
InputColumns(r) ==
  { SelectSeq(FeaturesNeeded(r), LAMBDA col : col \notin D) \o << OtherColumn >> :
      D \in { D \in SUBSET Range(FeaturesNeeded(r)) : Cardinality(D) <= MaxMissing } }

\* features_to_df: a table indexed by language code, one row per language.
FeatureTables(r) ==
  UNION { UNION { { [index |-> idx, columns |-> cols, rows |-> rws] :
                      rws \in [DOMAIN idx -> PipeRows(r, Range(cols))] } :
                  idx \in DistinctSeqs(Codes) } :
          cols \in InputColumns(r) }

\* The geographic reference file: rows of the WALS languages CSV.  A row
\* without a latitude has no coordinates.
GeoCsvRows ==
  { [ISO639P3code |-> k, Latitude |-> lat, Longitude |-> "2.5",
     Macroarea |-> m, Family |-> "fam", Name |-> "name"] :
      k \in Codes, lat \in {"NaN", "1.5"}, m \in Range(Macros) }

GeoCsvs == UNION { [1..n -> GeoCsvRows] : n \in 0..MaxGeoRows }

\* ------------------------------------------------------------- tables ----
\* A table is [index, columns, rows]: the row labels, the column names in
\* order, and one function from column name to cell per row.
NoTable == [index |-> << >>, columns |-> << >>, rows |-> << >>]

\* astype(str) of a language code: a string stays, a missing code becomes
\* the string "nan".
AsStr(v) == IF v = "NaN" THEN "nan" ELSE v

\* astype(int) of a verdict that is not NaN.
AsInt(v) == IF v = "1" THEN 1 ELSE 0

\* The positions 0..n-1 pandas gives a table whose index is reset.
RangeIndex(n) == [i \in 1..n |-> i - 1]

\* The row f with column c set to v (added when f lacks it).
WithCol(f, c, v) ==
  [x \in DOMAIN f \cup {c} |-> IF x = c THEN v ELSE f[x]]

\* df[cols]: the projection of a row on a list of columns.
Project(f, cols) == [x \in Range(cols) |-> f[x]]

\* Series.nunique() of a column of a table.
NUnique(rows, c) == Cardinality({ rows[i][c] : i \in DOMAIN rows })

RECURSIVE SumCol(_, _)
\* Series.sum() of an integer column.
SumCol(rows, c) ==
  IF rows = << >> THEN 0 ELSE rows[1][c] + SumCol(Tail(rows), c)

\* ----------------------------------------- normalize_lang2vec_syntax_df ----
\* str(i) of a row position.
PosStr(i) == << "0", "1", "2", "3", "4" >>[i + 1]

\* Mutant: the index is reset whatever the columns are (the test for an
\* existing lang_code column is left out), so a table that already has the
\* column gets its row positions as language codes.
normalize_lang2vec_syntax_df_always_reset(df, needed) ==
  LET has_code == "lang_code" \in Range(df.columns)
      cols1 == IF has_code THEN df.columns ELSE << "lang_code" >> \o df.columns
      rows1 == [i \in DOMAIN df.rows |->
                  WithCol(df.rows[i], "lang_code",
                          IF has_code THEN PosStr(df.index[i]) ELSE df.index[i])]
      rows2 == [i \in DOMAIN rows1 |->
                  WithCol(rows1[i], "lang_code", AsStr(rows1[i]["lang_code"]))]
      keep_cols == << "lang_code" >> \o
                   SelectSeq(needed, LAMBDA c : c \in Range(cols1))
  IN  [index   |-> RangeIndex(Len(df.rows)),
       columns |-> keep_cols,
       rows    |-> [i \in DOMAIN rows2 |-> Project(rows2[i], keep_cols)]]

normalize_lang2vec_syntax_df(df, needed) ==
  LET has_code == "lang_code" \in Range(df.columns)
      \* reset_index().rename(columns={"index": "lang_code"})
      cols1 == IF has_code THEN df.columns ELSE << "lang_code" >> \o df.columns
      rows1 == IF has_code THEN df.rows
               ELSE [i \in DOMAIN df.rows |->
                       WithCol(df.rows[i], "lang_code", df.index[i])]
      index1 == IF has_code THEN df.index ELSE RangeIndex(Len(df.rows))
      \* out["lang_code"].astype(str)
      rows2 == [i \in DOMAIN rows1 |->
                  WithCol(rows1[i], "lang_code", AsStr(rows1[i]["lang_code"]))]
      keep_cols == << "lang_code" >> \o
                   SelectSeq(needed, LAMBDA c : c \in Range(cols1))
  IN  [index   |-> index1,
       columns |-> keep_cols,
       rows    |-> [i \in DOMAIN rows2 |-> Project(rows2[i], keep_cols)]]

\* The required columns the normalized table lacks, in the order asked for.
MissingColumns(df, needed) ==
  SelectSeq(needed, LAMBDA c : c \notin Range(df.columns))

\* ------------------------------------------------------------ apply_rule ----
\* Mutant: rows the rule cannot test are kept and counted as violations
\* (fillna(0) in place of dropna).
apply_rule_keep_untestable(df, id, r) ==
  LET rows1 == [i \in DOMAIN df.rows |-> WithCol(df.rows[i], "rule_id", id)]
      rows2 == [i \in DOMAIN rows1 |->
                  WithCol(WithCol(rows1[i], "follows_rule", AsInt(rule_fn(r, rows1[i]))),
                          "violates_rule", 1 - AsInt(rule_fn(r, rows1[i])))]
  IN  [index   |-> df.index,
       columns |-> df.columns \o << "rule_id", "follows_rule", "violates_rule" >>,
       rows    |-> rows2]

apply_rule(df, id, r) ==
  LET rows1 == [i \in DOMAIN df.rows |-> WithCol(df.rows[i], "rule_id", id)]
      \* out.apply(rule_fn, axis=1)
      verdicts == [i \in DOMAIN rows1 |-> rule_fn(r, rows1[i])]
      \* dropna(subset=["follows_rule"])
      kept == SelectSeq([i \in DOMAIN rows1 |-> i],
                        LAMBDA i : ~IsNa(verdicts[i]))
      \* astype(int), then violates_rule = 1 - follows_rule
      evalRow(i) ==
        LET follows == AsInt(verdicts[i])
        IN  WithCol(WithCol(rows1[i], "follows_rule", follows),
                    "violates_rule", 1 - follows)
  IN  [index   |-> [j \in DOMAIN kept |-> df.index[kept[j]]],
       columns |-> df.columns \o << "rule_id", "follows_rule", "violates_rule" >>,
       rows    |-> [j \in DOMAIN kept |-> evalRow(kept[j])]]

\* --------------------------------------------------- prepare_wals_coords ----
coords_columns ==
  << "lang_code", "latitude", "longitude", "macro_area", "family", "language_name" >>

prepare_wals_coords(csv) ==
  LET \* dropna(subset=["Latitude", "Longitude"]): the positions kept
      kept == SelectSeq([i \in DOMAIN csv |-> i],
                        LAMBDA i : ~IsNa(csv[i].Latitude) /\ ~IsNa(csv[i].Longitude))
      \* rename(...), then lang_code.astype(str)
      coord(g) ==
        [c \in Range(coords_columns) |->
           CASE c = "lang_code"     -> AsStr(g.ISO639P3code)
             [] c = "latitude"      -> g.Latitude
             [] c = "longitude"     -> g.Longitude
             [] c = "macro_area"    -> g.Macroarea
             [] c = "family"        -> g.Family
             [] c = "language_name" -> g.Name]
  IN  [index   |-> [j \in DOMAIN kept |-> kept[j] - 1],
       columns |-> coords_columns,
       rows    |-> [j \in DOMAIN kept |-> coord(csv[kept[j]])]]

\* ------------------------------------------------------------ attach_geo ----
\* The row of the merge made of a left row and a right row with its key.
Merged(l, g) ==
  [c \in DOMAIN l \cup DOMAIN g |-> IF c \in DOMAIN l THEN l[c] ELSE g[c]]

RECURSIVE MergeRows(_, _)
\* Inner join on lang_code: every left row, in order, paired with every
\* right row that has its lang_code.
MergeRows(left, right) ==
  IF left = << >> THEN << >>
  ELSE LET l == Head(left)
           matches == SelectSeq(right, LAMBDA g : g["lang_code"] = l["lang_code"])
       IN  [j \in DOMAIN matches |-> Merged(l, matches[j])]
             \o MergeRows(Tail(left), right)

attach_geo(df_rule_eval, coords) ==
  LET rws == MergeRows(df_rule_eval.rows, coords.rows)
  IN  [index   |-> RangeIndex(Len(rws)),
       columns |-> df_rule_eval.columns \o Tail(coords.columns),
       rows    |-> rws]

\* ---------------------------------------------------- macro_area_summary ----
\* The rows of a table whose macro_area is m.
Group(rows, m) == SelectSeq(rows, LAMBDA g : g["macro_area"] = m)

\* One row of the summary.  violation_rate is the mean of violates_rule:
\* its sum over the rows of the group divided by their number, kept as the
\* exact quotient num/den.
SummaryRow(rows, m) ==
  LET g == Group(rows, m)
  IN  [macro_area     |-> m,
       n_languages    |-> NUnique(g, "lang_code"),
       n_violations   |-> SumCol(g, "violates_rule"),
       violation_rate |-> [num |-> SumCol(g, "violates_rule"), den |-> Len(g)]]

\* a sorts before b when descending by n_violations, then by n_languages.
SortsBefore(a, b) ==
  \/ a.n_violations > b.n_violations
  \/ a.n_violations = b.n_violations /\ a.n_languages > b.n_languages

RECURSIVE InsertSorted(_, _)
InsertSorted(x, s) ==
  IF s = << >> THEN << x >>
  ELSE IF SortsBefore(Head(s), x) \/ ~SortsBefore(x, Head(s))
       THEN << Head(s) >> \o InsertSorted(x, Tail(s))
       ELSE << x >> \o s

RECURSIVE SortValues(_)
\* sort_values(["n_violations", "n_languages"], ascending=False); rows with
\* equal keys keep the order of the groups.
SortValues(s) ==
  IF s = << >> THEN << >>
  ELSE LET n == Len(s)
       IN  InsertSorted(s[n], SortValues(SubSeq(s, 1, n - 1)))

macro_area_summary(df) ==
  LET \* groupby("macro_area"): one group per macro-area that occurs
      present == SelectSeq(Macros, LAMBDA m : Group(df.rows, m) # << >>)
  IN  SortValues([i \in DOMAIN present |-> SummaryRow(df.rows, present[i])])

\* ------------------------------------------------------- coverage_report ----
\* a / b if b else np.nan
Fraction(a, b) ==
  IF b # 0 THEN [nan |-> FALSE, num |-> a, den |-> b]
  ELSE [nan |-> TRUE, num |-> 0, den |-> 0]

\* Mutant: the total is the number of testable languages that have
\* geographic metadata.
coverage_report_total_from_geo(syntax, eval, geo) ==
  LET total_langs    == NUnique(geo.rows, "lang_code")
      testable_langs == NUnique(eval.rows, "lang_code")
      mappable_langs == NUnique(geo.rows, "lang_code")
  IN  [total_languages_in_lang2vec_syntax_df  |-> total_langs,
       languages_testable_for_rule            |-> testable_langs,
       testable_fraction                      |-> Fraction(testable_langs, total_langs),
       languages_with_geo_metadata_after_join |-> mappable_langs,
       geo_join_fraction_of_testable          |-> Fraction(mappable_langs, testable_langs)]

coverage_report(syntax, eval, geo) ==
  LET total_langs    == NUnique(syntax.rows, "lang_code")
      testable_langs == NUnique(eval.rows, "lang_code")
      mappable_langs == NUnique(geo.rows, "lang_code")
  IN  [total_languages_in_lang2vec_syntax_df  |-> total_langs,
       languages_testable_for_rule            |-> testable_langs,
       testable_fraction                      |-> Fraction(testable_langs, total_langs),
       languages_with_geo_metadata_after_join |-> mappable_langs,
       geo_join_fraction_of_testable          |-> Fraction(mappable_langs, testable_langs)]

\* ---------------------------------------------------------------- state ----
VARIABLES
  pc,                      \* where the run (or the evaluation of a row) is
  rule_id,                 \* the rule: selects rule_fn and the feature list
  rule_features_needed,    \* argument of run_rule_from_lang2vec
  all_syntax_features_df,  \* argument of run_rule_from_lang2vec
  df_syntax,               \* local: the normalized table
  error,                   \* the exception raised, type "None" while none is
  df_eval,                 \* local: the evaluated table
  wals_coords,             \* local: the coordinates table
  df_geo,                  \* local: the geo-joined table
  macro,                   \* local: the macro-area summary (a list of rows)
  coverage,                \* local: the coverage report
  result,                  \* the keys of the dict returned, {} until then
  row,                     \* the row handed to an evaluator
  verdict                  \* what the evaluator returned, "None" before

vars == << pc, rule_id, rule_features_needed, all_syntax_features_df, df_syntax,
           error, df_eval, wals_coords, df_geo, macro, coverage, result, row,
           verdict >>

NoError == [type |-> "None", rule_id |-> "", missing |-> << >>]

NoCoverage == coverage_report(NoTable, NoTable, NoTable)

\* ------------------------------------------- run_rule_from_lang2vec ----
Init ==
  /\ pc = "start"
  /\ rule_id \in RuleIds
  /\ rule_features_needed = FeaturesNeeded(rule_id)
  /\ all_syntax_features_df \in FeatureTables(rule_id)
  /\ df_syntax = NoTable
  /\ error = NoError
  /\ df_eval = NoTable
  /\ wals_coords = NoTable
  /\ df_geo = NoTable
  /\ macro = << >>
  /\ coverage = NoCoverage
  /\ result = {}
  /\ row = << >>
  /\ verdict = "None"

Normalize ==
  /\ pc = "start"
  /\ df_syntax' = normalize_lang2vec_syntax_df(all_syntax_features_df,
                                               rule_features_needed)
  /\ pc' = "normalized"
  /\ UNCHANGED << rule_id, rule_features_needed, all_syntax_features_df, error,
                  df_eval, wals_coords, df_geo, macro, coverage, result, row,
                  verdict >>

\* Mutant: the strict required-column check never raises.
RaiseMissingColumns_never ==
  /\ pc = "normalized"
  /\ MissingColumns(df_syntax, rule_features_needed) # << >>
  /\ pc' = "checked"
  /\ UNCHANGED << rule_id, rule_features_needed, all_syntax_features_df,
                  df_syntax, error, df_eval, wals_coords, df_geo, macro,
                  coverage, result, row, verdict >>

RaiseMissingColumns ==
  /\ pc = "normalized"
  /\ MissingColumns(df_syntax, rule_features_needed) # << >>
  /\ error' = [type |-> "ValueError", rule_id |-> rule_id,
               missing |-> MissingColumns(df_syntax, rule_features_needed)]
  /\ pc' = "raised"
  /\ UNCHANGED << rule_id, rule_features_needed, all_syntax_features_df,
                  df_syntax, df_eval, wals_coords, df_geo, macro, coverage,
                  result, row, verdict >>

PassColumnCheck ==
  /\ pc = "normalized"
  /\ MissingColumns(df_syntax, rule_features_needed) = << >>
  /\ pc' = "checked"
  /\ UNCHANGED << rule_id, rule_features_needed, all_syntax_features_df,
                  df_syntax, error, df_eval, wals_coords, df_geo, macro,
                  coverage, result, row, verdict >>

ApplyRule ==
  /\ pc = "checked"
  /\ df_eval' = apply_rule(df_syntax, << "Greenber_", rule_id >>, rule_id)
  /\ pc' = "evaluated"
  /\ UNCHANGED << rule_id, rule_features_needed, all_syntax_features_df,
                  df_syntax, error, wals_coords, df_geo, macro, coverage,
                  result, row, verdict >>

PrepareWalsCoords ==
  /\ pc = "evaluated"
  /\ \E csv \in GeoCsvs : wals_coords' = prepare_wals_coords(csv)
  /\ pc' = "coords"
  /\ UNCHANGED << rule_id, rule_features_needed, all_syntax_features_df,
                  df_syntax, error, df_eval, df_geo, macro, coverage, result,
                  row, verdict >>

AttachGeo ==
  /\ pc = "coords"
  /\ df_geo' = attach_geo(df_eval, wals_coords)
  /\ pc' = "joined"
  /\ UNCHANGED << rule_id, rule_features_needed, all_syntax_features_df,
                  df_syntax, error, df_eval, wals_coords, macro, coverage,
                  result, row, verdict >>

MacroAreaSummary ==
  /\ pc = "joined"
  /\ macro' = macro_area_summary(df_geo)
  /\ pc' = "summarised"
  /\ UNCHANGED << rule_id, rule_features_needed, all_syntax_features_df,
                  df_syntax, error, df_eval, wals_coords, df_geo, coverage,
                  result, row, verdict >>

CoverageReport ==
  /\ pc = "summarised"
  /\ coverage' = coverage_report(df_syntax, df_eval, df_geo)
  /\ result' = {"syntax", "rule_eval", "rule_geo", "macro_summary", "coverage"}
  /\ pc' = "returned"
  /\ UNCHANGED << rule_id, rule_features_needed, all_syntax_features_df,
                  df_syntax, error, df_eval, wals_coords, df_geo, macro, row,
                  verdict >>

Next ==
  \/ Normalize
  \/ RaiseMissingColumns
  \/ PassColumnCheck
  \/ ApplyRule
  \/ PrepareWalsCoords
  \/ AttachGeo
  \/ MacroAreaSummary
  \/ CoverageReport

Spec == Init /\ [][Next]_vars

\* ------------------------------------------ the evaluators on their own ----
\* An evaluator handed a literal feature mapping.
InitEval ==
  /\ pc = "row"
  /\ rule_id \in RuleIds
  /\ rule_features_needed = FeaturesNeeded(rule_id)
  /\ row \in EvalRows(rule_id)
  /\ verdict = "None"
  /\ all_syntax_features_df = NoTable
  /\ df_syntax = NoTable
  /\ error = NoError
  /\ df_eval = NoTable
  /\ wals_coords = NoTable
  /\ df_geo = NoTable
  /\ macro = << >>
  /\ coverage = NoCoverage
  /\ result = {}

Evaluate(r) ==
  /\ pc = "row"
  /\ rule_id = r
  /\ verdict' = rule_fn(r, row)
  /\ pc' = "verdict"
  /\ UNCHANGED << rule_id, rule_features_needed, all_syntax_features_df,
                  df_syntax, error, df_eval, wals_coords, df_geo, macro,
                  coverage, result, row >>

Evaluate19 == Evaluate("19")
Evaluate20 == Evaluate("20")
Evaluate21 == Evaluate("21")
Evaluate23 == Evaluate("23")
Evaluate24 == Evaluate("24")
Evaluate41 == Evaluate("41")

NextEval ==
  \/ Evaluate19
  \/ Evaluate20
  \/ Evaluate21
  \/ Evaluate23
  \/ Evaluate24
  \/ Evaluate41

SpecEval == InitEval /\ [][NextEval]_vars

\* =================================================================== claims
\* Vocabulary of the claims, stated on the row and not through the
\* evaluators' helpers.
Verdicts == {"1", "0", "NaN"}

PairRules == {"20", "21", "23", "24"}

\* The cell equals 1.
Attested(f, c) == c \in DOMAIN f /\ f[c] = "1"

\* The cell is observed: present and 0 or 1.
Observed(f, c) == c \in DOMAIN f /\ f[c] \in {"0", "1"}

AntecedentTrue(r, f) == \E c \in AntecedentCols(r) : Attested(f, c)

\* The position the rule forbids when attested alone, and the one it asks for.
WrongCol(r) ==
  CASE r = "20" -> "S_POSSESSOR_AFTER_NOUN"
    [] r = "21" -> "S_POSSESSOR_BEFORE_NOUN"
    [] r = "23" -> "S_ADJECTIVE_AFTER_NOUN"
    [] r = "24" -> "S_ADJECTIVE_BEFORE_NOUN"

RightCol(r) ==
  CASE r = "20" -> "S_POSSESSOR_BEFORE_NOUN"
    [] r = "21" -> "S_POSSESSOR_AFTER_NOUN"
    [] r = "23" -> "S_ADJECTIVE_BEFORE_NOUN"
    [] r = "24" -> "S_ADJECTIVE_AFTER_NOUN"

\* C1: for each of the six evaluators and every row, when none of the
\* rule's antecedent flags equals 1 (each is 0, unobserved or absent) the
\* verdict is NotTestable, whatever the consequent features are.
C1_AntecedentFalseNotTestable ==
  (pc = "verdict" /\ ~AntecedentTrue(rule_id, row)) => verdict = "NaN"

\* C1 witness: a rule-23 row with no VO flag set whose adjective is attested
\* after the noun only (a violation, were the antecedent true).
C1_Witness ==
  /\ pc = "verdict" /\ rule_id = "23"
  /\ ~AntecedentTrue("23", row)
  /\ Attested(row, "S_ADJECTIVE_AFTER_NOUN")
  /\ Observed(row, "S_ADJECTIVE_BEFORE_NOUN") /\ ~Attested(row, "S_ADJECTIVE_BEFORE_NOUN")
  /\ verdict = "NaN"

\* C2: for the before/after-pair rules 20, 21, 23, 24 and every row whose
\* antecedent is true, the verdict is Violates exactly when the wrong
\* position equals 1 and the right position does not; a row with both equal
\* to 1 is never Violates; rule 24 on (S_SOV=1, before=1, after=0) gives
\* Violates and on (S_SOV=1, before=0, after=1) gives Follows.
C2_ViolatesIffWrongOnly ==
  (pc = "verdict" /\ rule_id \in PairRules /\ AntecedentTrue(rule_id, row)) =>
    /\ verdict = "0" <=> (Attested(row, WrongCol(rule_id))
                            /\ ~Attested(row, RightCol(rule_id)))
    /\ (Attested(row, WrongCol(rule_id)) /\ Attested(row, RightCol(rule_id)))
         => verdict # "0"
    /\ (rule_id = "24" /\ Attested(row, "S_SOV")
          /\ Attested(row, "S_ADJECTIVE_BEFORE_NOUN")
          /\ Observed(row, "S_ADJECTIVE_AFTER_NOUN")
          /\ ~Attested(row, "S_ADJECTIVE_AFTER_NOUN")) => verdict = "0"
    /\ (rule_id = "24" /\ Attested(row, "S_SOV")
          /\ Attested(row, "S_ADJECTIVE_AFTER_NOUN")
          /\ Observed(row, "S_ADJECTIVE_BEFORE_NOUN")
          /\ ~Attested(row, "S_ADJECTIVE_BEFORE_NOUN")) => verdict = "1"

\* C2 witness: a rule-21 row with a modifier after the noun and the
\* possessor attested on both sides, found to follow the rule.
C2_Witness ==
  /\ pc = "verdict" /\ rule_id = "21"
  /\ AntecedentTrue("21", row)
  /\ Attested(row, "S_POSSESSOR_BEFORE_NOUN")
  /\ Attested(row, "S_POSSESSOR_AFTER_NOUN")
  /\ verdict = "1"

\* C3 (as claimed): for the pair rules and every row whose antecedent is
\* true, the verdict is NotTestable exactly when both the before and the
\* after indicator are unobserved or absent; with at least one of them
\* observed the verdict is Follows or Violates.
C3_NotTestableIffBothUnobserved ==
  (pc = "verdict" /\ rule_id \in PairRules /\ AntecedentTrue(rule_id, row)) =>
    /\ verdict = "NaN" <=> (~Observed(row, WrongCol(rule_id))
                              /\ ~Observed(row, RightCol(rule_id)))
    /\ (Observed(row, WrongCol(rule_id)) \/ Observed(row, RightCol(rule_id)))
         => verdict \in {"0", "1"}

\* A modifier of rule 19 attested before the noun only.
BeforeOnly(f, before, after) == Attested(f, before) /\ ~Attested(f, after)

DemBeforeOnly(f) ==
  BeforeOnly(f, "S_DEMONSTRATIVE_WORD_BEFORE_NOUN", "S_DEMONSTRATIVE_WORD_AFTER_NOUN")

NumBeforeOnly(f) ==
  BeforeOnly(f, "S_NUMERAL_BEFORE_NOUN", "S_NUMERAL_AFTER_NOUN")

\* The four position indicators of rule 19.
Rule19Positions ==
  {"S_DEMONSTRATIVE_WORD_BEFORE_NOUN", "S_DEMONSTRATIVE_WORD_AFTER_NOUN",
   "S_NUMERAL_BEFORE_NOUN", "S_NUMERAL_AFTER_NOUN"}

Untestable(f, before, after) ==
  /\ ~Attested(f, before) /\ ~Attested(f, after)
  /\ (~Observed(f, before) \/ ~Observed(f, after))

Rule19Untestable(f) ==
  \/ Untestable(f, "S_DEMONSTRATIVE_WORD_BEFORE_NOUN", "S_DEMONSTRATIVE_WORD_AFTER_NOUN")
  \/ Untestable(f, "S_NUMERAL_BEFORE_NOUN", "S_NUMERAL_AFTER_NOUN")

C5_Rule41 ==
  (pc = "verdict" /\ rule_id = "41" /\ AntecedentTrue("41", row)) =>
    LET allUnobserved == \A c \in Range(case_features) : ~Observed(row, c)
        someCase      == \E c \in Range(case_features) : Attested(row, c)
    IN  /\ verdict = "NaN" <=> allUnobserved
        /\ someCase => verdict = "1"
        /\ (~allUnobserved /\ ~someCase) => verdict = "0"

\* C5 witness: a verb-final row all of whose case columns are 0, found to
\* violate the rule.
C5_Witness ==
  /\ pc = "verdict" /\ rule_id = "41"
  /\ Attested(row, "S_SOV")
  /\ \A c \in Range(case_features) : c \in DOMAIN row /\ row[c] = "0"
  /\ verdict = "0"

\* ------------------------------------------------------ pipeline claims ----
\* Positions of the run at which the evaluated table exists, and so on.
AfterApply   == {"evaluated", "coords", "joined", "summarised", "returned"}
AfterCoords  == {"coords", "joined", "summarised", "returned"}
AfterJoin    == {"joined", "summarised", "returned"}
AfterSummary == {"summarised", "returned"}

\* The verdict of the i-th row of the normalized table.
VerdictOf(i) == rule_fn(rule_id, df_syntax.rows[i])

\* The language codes of the rows of the normalized table the rule can
\* test, cannot test, and finds in violation.
TestableCodes ==
  { df_syntax.rows[i]["lang_code"] : i \in { j \in DOMAIN df_syntax.rows : VerdictOf(j) # "NaN" } }

ViolatingCodes ==
  { df_syntax.rows[i]["lang_code"] : i \in { j \in DOMAIN df_syntax.rows : VerdictOf(j) = "0" } }

\* The codes that have a row with coordinates in the reference table.
GeoCodes == { wals_coords.rows[i]["lang_code"] : i \in DOMAIN wals_coords.rows }

\* The rows of the coordinates table of macro-area m whose code is in K.
GeoRowsOf(m, K) ==
  { i \in DOMAIN wals_coords.rows :
      /\ wals_coords.rows[i]["macro_area"] = m
      /\ wals_coords.rows[i]["lang_code"] \in K }

\* C6: the table apply_rule produces contains exactly the input rows whose
\* verdict is not NotTestable; each has follows_rule in {0,1} and
\* violates_rule = 1 - follows_rule; no NotTestable row appears in the
\* evaluated table, the geo-joined table, the macro-area summary counts or
\* the testable/mappable coverage counts.
C6_OnlyTestableRows ==
  /\ pc \in AfterApply =>
       LET expected == SelectSeq(df_syntax.rows, LAMBDA f : rule_fn(rule_id, f) # "NaN")
       IN  /\ Len(df_eval.rows) = Len(expected)
           /\ \A j \in DOMAIN df_eval.rows :
                /\ Project(df_eval.rows[j], df_syntax.columns) = expected[j]
                /\ df_eval.rows[j]["follows_rule"] \in {0, 1}
                /\ df_eval.rows[j]["follows_rule"] = 1
                     <=> rule_fn(rule_id, expected[j]) = "1"
                /\ df_eval.rows[j]["violates_rule"] = 1 - df_eval.rows[j]["follows_rule"]
                /\ df_eval.rows[j]["follows_rule"] + df_eval.rows[j]["violates_rule"] = 1
  /\ pc \in AfterJoin =>
       \A j \in DOMAIN df_geo.rows :
         /\ df_geo.rows[j]["lang_code"] \in TestableCodes
         /\ df_geo.rows[j]["follows_rule"] \in {0, 1}
         /\ df_geo.rows[j]["follows_rule"] + df_geo.rows[j]["violates_rule"] = 1
         /\ df_geo.rows[j]["violates_rule"] = 1
              <=> df_geo.rows[j]["lang_code"] \in ViolatingCodes
  /\ pc \in AfterSummary =>
       \A k \in DOMAIN macro :
         /\ macro[k].n_languages =
              Cardinality({ c \in TestableCodes : GeoRowsOf(macro[k].macro_area, {c}) # {} })
         /\ macro[k].n_violations =
              Cardinality(GeoRowsOf(macro[k].macro_area, ViolatingCodes))
         /\ macro[k].violation_rate.den =
              Cardinality(GeoRowsOf(macro[k].macro_area, TestableCodes))
  /\ pc = "returned" =>
       /\ coverage.languages_testable_for_rule = Cardinality(TestableCodes)
       /\ coverage.languages_with_geo_metadata_after_join =
            Cardinality(TestableCodes \cap GeoCodes)

\* C6 witness: a finished run over a table with a row the rule cannot test,
\* whose language has coordinates, and a row it can test and finds joined.
C6_Witness ==
  /\ pc = "returned"
  /\ \E i \in DOMAIN df_syntax.rows :
       /\ VerdictOf(i) = "NaN"
       /\ df_syntax.rows[i]["lang_code"] \in GeoCodes
  /\ df_geo.rows # << >>
  /\ macro # << >>

\* The required columns the input table lacks.
AbsentColumns ==
  { c \in Range(rule_features_needed) : c \notin Range(all_syntax_features_df.columns) }

\* C7: when rule_features_needed contains a column absent from the input
\* table, the run ends in a ValueError that names every missing column, and
\* nothing is produced: the error is raised before the evaluator is applied
\* to any row and before the reference table is loaded, and no result
\* dictionary is returned.
C7_MissingColumnFailsFast ==
  AbsentColumns # {} =>
    /\ pc \in {"start", "normalized", "raised"}
    /\ pc = "normalized" => ENABLED RaiseMissingColumns
    /\ pc = "raised" =>
         /\ error.type = "ValueError"
         /\ Range(error.missing) = AbsentColumns
         /\ error.rule_id = rule_id
    /\ df_eval = NoTable
    /\ wals_coords = NoTable
    /\ df_geo = NoTable
    /\ macro = << >>
    /\ result = {}

\* C7 witness: a run over a table with rows that lacks two required columns,
\* ended by the error.
C7_Witness ==
  /\ pc = "raised"
  /\ Cardinality(AbsentColumns) = 2
  /\ all_syntax_features_df.rows # << >>
  /\ error.type = "ValueError"

\* C8 (as claimed): for every evaluated table and every geographic reference
\* table, every row of the macro-area summary has n_violations <=
\* n_languages and violation_rate = n_violations / n_languages, n_languages
\* being the number of distinct lang_code values of the macro-area.
C8_AggregationCorrect ==
  pc \in AfterSummary =>
    \A k \in DOMAIN macro :
      /\ macro[k].n_languages =
           NUnique(Group(df_geo.rows, macro[k].macro_area), "lang_code")
      /\ macro[k].n_violations <= macro[k].n_languages
      /\ macro[k].violation_rate.num * macro[k].n_languages
           = macro[k].n_violations * macro[k].violation_rate.den

\* C9: for every successful run the coverage report has mappable_langs <=
\* testable_langs <= total_langs, the numbers of distinct lang_code values
\* of the geo-joined, evaluated and normalized tables; testable languages
\* without a geographic record lower mappable_langs and raise no error.
C9_CoverageMonotone ==
  /\ pc \in AfterApply => error = NoError
  /\ pc = "returned" =>
       LET total    == coverage.total_languages_in_lang2vec_syntax_df
           testable == coverage.languages_testable_for_rule
           mappable == coverage.languages_with_geo_metadata_after_join
       IN  /\ mappable <= testable
           /\ testable <= total
           /\ total = Cardinality({ df_syntax.rows[i]["lang_code"] : i \in DOMAIN df_syntax.rows })
           /\ testable = Cardinality({ df_eval.rows[i]["lang_code"] : i \in DOMAIN df_eval.rows })
           /\ mappable = Cardinality({ df_geo.rows[i]["lang_code"] : i \in DOMAIN df_geo.rows })
           /\ mappable = testable - Cardinality(TestableCodes \ GeoCodes)

\* C9 witness: a run that returned with a language that is not testable and
\* a testable language that has no geographic record.
C9_Witness ==
  /\ pc = "returned"
  /\ error = NoError
  /\ TestableCodes \ GeoCodes # {}
  /\ coverage.languages_with_geo_metadata_after_join
       < coverage.languages_testable_for_rule
  /\ coverage.languages_testable_for_rule
       < coverage.total_languages_in_lang2vec_syntax_df

\* The row f with the columns of S added as unobserved (NaN).
FillNaN(f, S) == [c \in DOMAIN f \cup S |-> IF c \in DOMAIN f THEN f[c] ELSE "NaN"]

\* C10: for each of the six evaluators and every pair of rows that differ
\* only in that some feature columns are absent from one and present but
\* unobserved (NaN) in the other, the evaluator raises no error on either
\* row and returns the same verdict for both.
C10_AbsentSameAsUnobserved ==
  pc = "verdict" =>
    /\ verdict \in Verdicts
    /\ \A S \in SUBSET (Range(rule_features_needed) \ DOMAIN row) :
         rule_fn(rule_id, FillNaN(row, S)) = verdict

\* C10 witness: a rule-19 row that lacks the demonstrative's after-noun
\* column and is found to violate the rule.
C10_Witness ==
  /\ pc = "verdict" /\ rule_id = "19"
  /\ "S_DEMONSTRATIVE_WORD_AFTER_NOUN" \notin DOMAIN row
  /\ Attested(row, "S_DEMONSTRATIVE_WORD_BEFORE_NOUN")
  /\ verdict = "0"

\* ------------------------------------------ the normalizer on its own ----
\* The rows of the tables the normalizer is run on: every feature cell of a
\* row holds the same value.
NormRow(cols, v) == [c \in cols |-> v]

\* A raw lang_code cell: a code, or a missing one.
RawCodes == Codes \cup {"NaN"}

\* A table keyed by language code through its index (features_to_df): the
\* codes idx, and for each the value vs[i] of its cells.
IndexKeyedTable(cols, idx, vs) ==
  [index   |-> idx,
   columns |-> cols,
   rows    |-> [i \in DOMAIN idx |-> NormRow(Range(cols), vs[i])]]

\* A table of n rows that carries the code in a lang_code column (the last
\* one), under the default index of row positions.
CodeColumnTable(cols, n, ks, vs) ==
  [index   |-> RangeIndex(n),
   columns |-> cols \o << "lang_code" >>,
   rows    |-> [i \in 1..n |->
                  WithCol(NormRow(Range(cols), vs[i]), "lang_code", ks[i])]]

InitNorm ==
  /\ pc = "start"
  /\ rule_id \in RuleIds
  /\ rule_features_needed = FeaturesNeeded(rule_id)
  /\ \E cols \in InputColumns(rule_id) :
       \/ \E idx \in DistinctSeqs(Codes) : \E vs \in [DOMAIN idx -> Cells] :
            all_syntax_features_df = IndexKeyedTable(cols, idx, vs)
       \/ \E n \in 0..MaxCodeRows :
            \E ks \in [1..n -> RawCodes] : \E vs \in [1..n -> Cells] :
              all_syntax_features_df = CodeColumnTable(cols, n, ks, vs)
  /\ df_syntax = NoTable
  /\ error = NoError
  /\ df_eval = NoTable
  /\ wals_coords = NoTable
  /\ df_geo = NoTable
  /\ macro = << >>
  /\ coverage = NoCoverage
  /\ result = {}
  /\ row = << >>
  /\ verdict = "None"

\* The normalizer run a second time on the same table.
RepeatNormalize ==
  /\ pc = "normalized"
  /\ df_syntax' = normalize_lang2vec_syntax_df(all_syntax_features_df,
                                               rule_features_needed)
  /\ pc' = "repeated"
  /\ UNCHANGED << rule_id, rule_features_needed, all_syntax_features_df, error,
                  df_eval, wals_coords, df_geo, macro, coverage, result, row,
                  verdict >>

\* The normalizer run on its own output: the output becomes the table
\* handed in.
NormalizeOutput ==
  /\ pc = "normalized"
  /\ all_syntax_features_df' = df_syntax
  /\ df_syntax' = normalize_lang2vec_syntax_df(df_syntax, rule_features_needed)
  /\ pc' = "renormalized"
  /\ UNCHANGED << rule_id, rule_features_needed, error, df_eval, wals_coords,
                  df_geo, macro, coverage, result, row, verdict >>

NextNorm ==
  \/ Normalize
  \/ RepeatNormalize
  \/ NormalizeOutput

SpecNorm == InitNorm /\ [][NextNorm]_vars

====
